---- MODULE Spec2Model ----
(***************************************************************************)
(* Model of the Intcode interpreter, solutions/2019/code/intcode.py        *)
(* (class IntcodeComputer).  Python objects live on three heaps (dicts,    *)
(* lists, iterators) and a machine holds references into them, so that     *)
(* aliasing between a machine and its copy is something the model can      *)
(* express.  The debug flag only prints and is left out.                   *)
(***************************************************************************)
EXTENDS Integers, Sequences, FiniteSets, TLC

\* ------------------------------------------------------------------ bounds
MaxSteps == 8      \* instructions one run call may execute before it counts as diverging
MaxOps == 3        \* API calls per behaviour

None == "None"          \* no exception
NoBound == <<>>         \* num_outputs=None; a bound n is passed as <<n>>

\* ------------------------------------------------------- Python primitives
DigitChars == <<"0", "1", "2", "3", "4", "5", "6", "7", "8", "9">>

RECURSIVE digits(_)
digits(n) ==
    IF n < 10 THEN <<DigitChars[n + 1]>>
    ELSE digits(n \div 10) \o <<DigitChars[(n % 10) + 1]>>

\* str(n) for an int
str(n) == IF n < 0 THEN <<"-">> \o digits(-n) ELSE digits(n)

\* s.zfill(width): zeros go after a leading sign
zfill(s, width) ==
    LET pad == [i \in 1..(width - Len(s)) |-> "0"]
    IN  IF Len(s) >= width THEN s
        ELSE IF Head(s) = "-" THEN <<"-">> \o pad \o Tail(s)
        ELSE pad \o s

DigitVal(c) == CHOOSE d \in 0..9 : DigitChars[d + 1] = c

RECURSIVE digitsValue(_)
digitsValue(s) ==
    IF s = <<>> THEN 0
    ELSE 10 * digitsValue(SubSeq(s, 1, Len(s) - 1)) + DigitVal(s[Len(s)])

IsDigits(s) == s # <<>> /\ \A i \in 1..Len(s) : s[i] # "-"

\* int(s) for a str: ok = FALSE stands for ValueError
int(s) ==
    IF IsDigits(s) THEN [ok |-> TRUE, val |-> digitsValue(s)]
    ELSE IF s # <<>> /\ Head(s) = "-" /\ IsDigits(Tail(s))
         THEN [ok |-> TRUE, val |-> 0 - digitsValue(Tail(s))]
    ELSE [ok |-> FALSE, val |-> 0]

\* defaultdict(int): a read of a missing key inserts it with value 0
Get(mem, a) == IF a \in DOMAIN mem THEN mem[a] ELSE 0
\* a read of a missing key inserting 1
Touch_one(mem, a) == [x \in DOMAIN mem \cup {a} |-> IF x \in DOMAIN mem THEN mem[x] ELSE 1]

Touch(mem, a) == [x \in DOMAIN mem \cup {a} |-> IF x \in DOMAIN mem THEN mem[x] ELSE 0]
Put(mem, a, v) == [x \in DOMAIN mem \cup {a} |-> IF x = a THEN v ELSE mem[x]]

\* the contents of a memory as reads observe them (keys holding 0 are not visible)
Contents(mem) == [a \in {x \in DOMAIN mem : mem[x] # 0} |-> mem[a]]

\* ------------------------------------------------------ instruction decoder
valid_opcodes == {1, 2, 3, 4, 5, 6, 7, 8, 9, 99}

\* parse_opcode with the opcode sliced one character late (padded[4:])
parse_opcode_short(opcode) ==
    LET padded == zfill(str(opcode), 5)
        op == int(SubSeq(padded, 5, Len(padded)))
        m0 == int(<<padded[3]>>)
        m1 == int(<<padded[2]>>)
        m2 == int(<<padded[1]>>)
    IN  IF op.ok /\ m0.ok /\ m1.ok /\ m2.ok
        THEN [ok |-> TRUE, opcode |-> op.val, modes |-> <<m0.val, m1.val, m2.val>>]
        ELSE [ok |-> FALSE, opcode |-> 0, modes |-> <<>>]

\* parse_opcode with the mode digits taken in the order they are written
parse_opcode_msd_first(opcode) ==
    LET padded == zfill(str(opcode), 5)
        op == int(SubSeq(padded, 4, Len(padded)))
        m0 == int(<<padded[1]>>)
        m1 == int(<<padded[2]>>)
        m2 == int(<<padded[3]>>)
    IN  IF op.ok /\ m0.ok /\ m1.ok /\ m2.ok
        THEN [ok |-> TRUE, opcode |-> op.val, modes |-> <<m0.val, m1.val, m2.val>>]
        ELSE [ok |-> FALSE, opcode |-> 0, modes |-> <<>>]

\* parse_opcode: (opcode, mode, mode, mode); ok = FALSE stands for the
\* ValueError int() raises on the sign character
parse_opcode(opcode) ==
    LET padded == zfill(str(opcode), 5)
        op == int(SubSeq(padded, 4, Len(padded)))
        m0 == int(<<padded[3]>>)
        m1 == int(<<padded[2]>>)
        m2 == int(<<padded[1]>>)
    IN  IF op.ok /\ m0.ok /\ m1.ok /\ m2.ok
        THEN [ok |-> TRUE, opcode |-> op.val, modes |-> <<m0.val, m1.val, m2.val>>]
        ELSE [ok |-> FALSE, opcode |-> 0, modes |-> <<>>]

\* -1 stands for the ValueError raised on any other opcode
num_parameters(opcode) ==
    IF opcode = 99 THEN 0
    ELSE IF opcode \in {1, 2, 7, 8} THEN 3
    ELSE IF opcode \in {5, 6} THEN 2
    ELSE IF opcode \in {3, 4, 9} THEN 1
    ELSE -1

\* -------------------------------------------------------- operand resolver
\* A flat machine state s has the fields program, output, inputs, pointer,
\* relative_base, interactive, console (the values still to be typed), and
\* the history fields istores (values stored by queue-fed input instructions)
\* and creads (number of console reads).
Instruction(parameter, mode) == [parameter |-> parameter, mode |-> mode]

get_value(s, instruction) ==
    IF instruction.mode = 0
    THEN [err |-> None, val |-> Get(s.program, instruction.parameter),
          s |-> [s EXCEPT !.program = Touch(@, instruction.parameter)]]
    ELSE IF instruction.mode = 1
    THEN [err |-> None, val |-> instruction.parameter, s |-> s]
    ELSE IF instruction.mode = 2
    THEN [err |-> None, val |-> Get(s.program, s.relative_base + instruction.parameter),
          s |-> [s EXCEPT !.program = Touch(@, s.relative_base + instruction.parameter)]]
    ELSE [err |-> "ValueError", val |-> 0, s |-> s]

\* get_write_value without the relative base
get_write_value_position_only(s, instruction) == instruction.parameter

get_write_value(s, instruction) ==
    IF instruction.mode = 2 THEN instruction.parameter + s.relative_base
    ELSE instruction.parameter

\* --------------------------------------------------------------- I/O channel
\* get_input: console read when interactive (Blocked when nothing is typed),
\* else next(self.inputs) (StopIteration when exhausted)
get_input(s) ==
    IF s.interactive
    THEN IF s.console = <<>>
         THEN [err |-> "Blocked", val |-> 0, s |-> s, queued |-> FALSE]
         ELSE [err |-> None, val |-> Head(s.console), queued |-> FALSE,
               s |-> [s EXCEPT !.console = Tail(@), !.creads = @ + 1]]
    ELSE IF s.inputs = <<>>
         THEN [err |-> "StopIteration", val |-> 0, s |-> s, queued |-> TRUE]
         ELSE [err |-> None, val |-> Head(s.inputs), queued |-> TRUE,
               s |-> [s EXCEPT !.inputs = Tail(@)]]

\* ---------------------------------------------------------- execution engine
Fail(err, s) == [err |-> err, inc |-> FALSE, s |-> s]
Done(inc, s) == [err |-> None, inc |-> inc, s |-> s]

\* opcodes 1, 2, 7, 8 with the destination cleared before the values are resolved
binary_clears_first(s, opcode, params) ==
    LET c == [s EXCEPT !.program = Put(@, get_write_value(s, params[3]), 0)]
        a == get_value(c, params[1])
        b == get_value(a.s, params[2])
        res == IF opcode = 1 THEN a.val + b.val
               ELSE IF opcode = 2 THEN a.val * b.val
               ELSE IF opcode = 7 THEN (IF a.val < b.val THEN 1 ELSE 0)
               ELSE (IF a.val = b.val THEN 1 ELSE 0)
    IN  IF a.err # None THEN Fail(a.err, a.s)
        ELSE IF b.err # None THEN Fail(b.err, b.s)
        ELSE Done(TRUE, [b.s EXCEPT !.program = Put(@, get_write_value(b.s, params[3]), res)])

\* opcodes 1, 2, 7, 8: both values are resolved, then the destination
binary(s, opcode, params) ==
    LET a == get_value(s, params[1])
        b == get_value(a.s, params[2])
        res == IF opcode = 1 THEN a.val + b.val
               ELSE IF opcode = 2 THEN a.val * b.val
               ELSE IF opcode = 7 THEN (IF a.val < b.val THEN 1 ELSE 0)
               ELSE (IF a.val = b.val THEN 1 ELSE 0)
    IN  IF a.err # None THEN Fail(a.err, a.s)
        ELSE IF b.err # None THEN Fail(b.err, b.s)
        ELSE Done(TRUE, [b.s EXCEPT !.program = Put(@, get_write_value(b.s, params[3]), res)])

\* input_op with the destination cleared before get_input() is called
input_op_clobbers(s, params) ==
    LET dst == get_write_value(s, params[1])
        c == [s EXCEPT !.program = Put(@, dst, -1)]
        i == get_input(c)
        mem == Put(i.s.program, dst, i.val)
    IN  IF i.err # None THEN Fail(i.err, i.s)
        ELSE Done(TRUE, [i.s EXCEPT !.program = mem,
                                    !.istores = IF i.queued THEN Append(@, mem[dst]) ELSE @])

\* opcode 3: the right-hand side get_input() is evaluated before the destination
input_op(s, params) ==
    LET i == get_input(s)
        dst == get_write_value(i.s, params[1])
        mem == Put(i.s.program, dst, i.val)
    IN  IF i.err # None THEN Fail(i.err, i.s)
        ELSE Done(TRUE, [i.s EXCEPT !.program = mem,
                                    !.istores = IF i.queued THEN Append(@, mem[dst]) ELSE @])

\* opcode 4 starting the log over: self.output = [value]
output_op_replaces(s, params) ==
    LET a == get_value(s, params[1])
    IN  IF a.err # None THEN Fail(a.err, a.s)
        ELSE Done(TRUE, [a.s EXCEPT !.output = <<a.val>>])

output_op(s, params) ==
    LET a == get_value(s, params[1])
    IN  IF a.err # None THEN Fail(a.err, a.s)
        ELSE Done(TRUE, [a.s EXCEPT !.output = Append(@, a.val)])

\* opcodes 5 and 6: the target is resolved only when the jump is taken
jump(s, opcode, params) ==
    LET a == get_value(s, params[1])
        taken == IF opcode = 5 THEN a.val # 0 ELSE a.val = 0
        b == get_value(a.s, params[2])
    IN  IF a.err # None THEN Fail(a.err, a.s)
        ELSE IF ~taken THEN Done(TRUE, a.s)
        ELSE IF b.err # None THEN Fail(b.err, b.s)
        ELSE Done(FALSE, [b.s EXCEPT !.pointer = b.val])

base_op(s, params) ==
    LET a == get_value(s, params[1])
    IN  IF a.err # None THEN Fail(a.err, a.s)
        ELSE Done(TRUE, [a.s EXCEPT !.relative_base = @ + a.val])

execute_opcode(s, opcode, params) ==
    IF opcode \in {1, 2, 7, 8} THEN binary(s, opcode, params)
    ELSE IF opcode = 3 THEN input_op(s, params)
    ELSE IF opcode = 4 THEN output_op(s, params)
    ELSE IF opcode \in {5, 6} THEN jump(s, opcode, params)
    ELSE IF opcode = 9 THEN base_op(s, params)
    ELSE Done(TRUE, s)

\* slice_program: reads (and so inserts) every cell of the range
RECURSIVE touch_range(_, _, _)
touch_range(mem, lo, n) ==
    IF n = 0 THEN mem ELSE touch_range(Touch(mem, lo), lo + 1, n - 1)

slice_program(s, lo, n) == [i \in 1..n |-> Get(s.program, lo + i - 1)]

\* the pointer moved past the instruction whether or not it jumped
advance_always(s, should_increment_pointer, num_params) ==
    [s EXCEPT !.pointer = @ + num_params + 1]

\* the pointer after an executed instruction
advance(s, should_increment_pointer, num_params) ==
    IF should_increment_pointer THEN [s EXCEPT !.pointer = @ + num_params + 1] ELSE s

\* suspend counting every output of the log, not those of this call
suspend_counts_all(s, limit_outputs, num_outputs, original_num_outputs) ==
    limit_outputs /\ Len(s.output) = num_outputs[1]

\* the test that ends a bounded run
suspend(s, limit_outputs, num_outputs, original_num_outputs) ==
    limit_outputs /\ Len(s.output) - original_num_outputs = num_outputs[1]

\* what a run call reports: ret is Halted (True), Suspended (False), the
\* exception raised, Blocked (console read with nothing typed) or Diverged
\* (fuel used up); pre is the state before the last instruction was fetched,
\* trace the instructions the call executed, in order
Result(ret, s, pre, trace) == [ret |-> ret, s |-> s, pre |-> pre, trace |-> trace]

\* what can be observed of a machine
View(s) ==
    [program |-> Contents(s.program), output |-> s.output, inputs |-> s.inputs,
     pointer |-> s.pointer, relative_base |-> s.relative_base,
     interactive |-> s.interactive]

\* an executed instruction: where it stood, its word as decoded, and the
\* machine as it was before the word was fetched
Executed(s, word, d) ==
    [pointer |-> s.pointer, word |-> word, opcode |-> d.opcode, modes |-> d.modes,
     pre |-> View(s)]

\* the loop of run
RECURSIVE loop(_, _, _, _, _, _)
loop(s, limit_outputs, num_outputs, original_num_outputs, fuel, trace) ==
    LET word == Get(s.program, s.pointer)
        s1 == [s EXCEPT !.program = Touch(@, s.pointer)]
        d == parse_opcode(word)
        num_params == num_parameters(d.opcode)
        cells == slice_program(s1, s1.pointer + 1, num_params)
        s2 == [s1 EXCEPT !.program = touch_range(@, s1.pointer + 1, num_params)]
        params == [i \in 1..num_params |-> Instruction(cells[i], d.modes[i])]
        r == execute_opcode(s2, d.opcode, params)
        s3 == advance(r.s, r.inc, num_params)
        tr == Append(trace, Executed(s, word, d))
    IN  IF fuel = 0 THEN Result("Diverged", s, s, trace)
        ELSE IF ~d.ok THEN Result("ValueError", s1, s, trace)
        ELSE IF d.opcode \notin valid_opcodes THEN Result("ValueError", s1, s, trace)
        ELSE IF d.opcode = 99 THEN Result("Halted", s1, s, trace)
        ELSE IF num_params < 0 THEN Result("ValueError", s1, s, trace)
        ELSE IF r.err # None THEN Result(r.err, r.s, s, trace)
        ELSE IF suspend(s3, limit_outputs, num_outputs, original_num_outputs)
             THEN Result("Suspended", s3, s, tr)
        ELSE loop(s3, limit_outputs, num_outputs, original_num_outputs, fuel - 1, tr)

\* bool(num_outputs)
bool(num_outputs) == num_outputs # NoBound /\ num_outputs[1] # 0

\* run starting over at address 0
run_restarts(s, num_outputs, fuel) ==
    loop([s EXCEPT !.pointer = 0], bool(num_outputs), num_outputs, Len(s.output), fuel, <<>>)

run(s, num_outputs, fuel) ==
    loop(s, bool(num_outputs), num_outputs, Len(s.output), fuel, <<>>)

\* __init__ with the flag set from force_uninteractive alone
init_interactive_unless_forced(program, inputs, force_uninteractive) ==
    [program |-> [i \in 0..(Len(program) - 1) |-> program[i + 1]],
     output |-> <<>>,
     pointer |-> 0,
     interactive |-> ~force_uninteractive,
     inputs |-> inputs,
     relative_base |-> 0]

\* __init__: the fields of a newly constructed machine (inputs=None and
\* inputs=[] are both the empty sequence)
init(program, inputs, force_uninteractive) ==
    [program |-> [i \in 0..(Len(program) - 1) |-> program[i + 1]],
     output |-> <<>>,
     pointer |-> 0,
     interactive |-> (inputs = <<>>) /\ ~force_uninteractive,
     inputs |-> inputs,
     relative_base |-> 0]

\* diagnostic: the value returned, or the exception raised
diagnostic(output) ==
    IF \E i \in 1..(Len(output) - 1) : output[i] # 0
    THEN [ret |-> "RuntimeError", val |-> 0]
    ELSE IF output = <<>> THEN [ret |-> "IndexError", val |-> 0]
    ELSE [ret |-> "Returned", val |-> output[Len(output)]]

\* ------------------------------------------------------------- object heaps
\* the reference a newly created object gets
NewRef(h) ==
    CHOOSE r \in 0..Cardinality(DOMAIN h) :
        r \notin DOMAIN h /\ \A q \in 0..(r - 1) : q \in DOMAIN h

\* objects no machine refers to are collected
Collect(h, refs) == [r \in DOMAIN h \cap refs |-> h[r]]

\* add_int without the values still pending: iter([val])
add_int_discards(its, ref, val) ==
    LET r == NewRef(its)
    IN  [ref |-> r, err |-> None,
         heap |-> [x \in DOMAIN its \cup {r} |-> IF x = r THEN <<val>> ELSE its[x]]]

\* self.inputs = iter([*list(self.inputs), val]): the old iterator is
\* drained and a new one holds what it had left, followed by val
add_int(its, ref, val) ==
    LET r == NewRef(its)
    IN  [ref |-> r, err |-> None,
         heap |-> [x \in DOMAIN its \cup {r} |->
                      IF x = r THEN Append(its[ref], val)
                      ELSE IF x = ref THEN <<>> ELSE its[x]]]

\* for i in val: self.add_input(i); the item at index bad (0: none) is
\* neither an int nor a list and raises TypeError
RECURSIVE add_list(_, _, _, _, _)
add_list(its, ref, items, bad, k) ==
    IF k > Len(items) THEN [ref |-> ref, err |-> None, heap |-> its]
    ELSE IF k = bad THEN [ref |-> ref, err |-> "TypeError", heap |-> its]
    ELSE LET a == add_int(its, ref, items[k])
         IN  add_list(a.heap, a.ref, items, bad, k + 1)

\* add_input, after self.interactive = False; arg.kind is int (items = <<val>>),
\* list, or other (neither)
add_input(its, ref, arg) ==
    IF arg.kind = "list" THEN add_list(its, ref, arg.items, arg.bad, 1)
    ELSE IF arg.kind = "int" THEN add_int(its, ref, arg.items[1])
    ELSE [ref |-> ref, err |-> "TypeError", heap |-> its]

\* the flag when only the int branch clears it
add_input_interactive_int_only(interactive, arg) ==
    IF arg.kind = "int" \/ (arg.kind = "list" /\ arg.bad # 1 /\ arg.items # <<>>)
    THEN FALSE ELSE interactive

\* the flag add_input leaves in self.interactive
add_input_interactive(interactive, arg) == FALSE

\* copy: res.program = self.program.copy()
copy_program(ds, self) ==
    LET r == NewRef(ds)
    IN  [ref |-> r, heap |-> [x \in DOMAIN ds \cup {r} |-> IF x = r THEN ds[self.program] ELSE ds[x]]]

\* copy: res.inputs = iter([*list(self.inputs)]); list() drains self.inputs
copy_inputs(its, self) ==
    LET r == NewRef(its)
    IN  [ref |-> r,
         heap |-> [x \in DOMAIN its \cup {r} |->
                      IF x = r THEN its[self.inputs]
                      ELSE IF x = self.inputs THEN <<>> ELSE its[x]]]

\* copy sharing the output list: res.output = self.output
copy_output_shared(ls, self) == [ref |-> self.output, heap |-> ls]

\* copy: res.output = self.output.copy()
copy_output(ls, self) ==
    LET r == NewRef(ls)
    IN  [ref |-> r, heap |-> [x \in DOMAIN ls \cup {r} |-> IF x = r THEN ls[self.output] ELSE ls[x]]]

\* -------------------------------------------------------------------- inputs
Programs ==
    { <<1, 0, 0, 0, 99>>,                     \* add, position mode, self-modifying
      <<1101, 100, -1, 4, 0>>,                \* add, immediate mode, writes the halt
      <<1002, 4, 3, 4, 33>>,                  \* multiply
      <<1107, 1, 2, 7, 8, 7, 7, 0, 99>>,      \* less-than, then equals
      <<3, 0, 4, 0, 99>>,                     \* one input, one output
      <<3, 0, 4, 0, 3, 1, 4, 1, 99>>,         \* input, output, input, output
      <<4, 0, 4, 1, 4, 2, 99>>,               \* three outputs
      <<104, 0, 104, 3, 99>>,                 \* outputs 0 then 3
      <<4, 0, 1105, 1, 0>>,                   \* outputs forever
      <<1105, 1, 4, 99, 6, 20, 9, 99, 0, 3>>, \* two taken jumps, one through an unset cell
      <<109, 5, 204, -5, 203, 0, 4, 5, 99>>,  \* relative base
      <<>>,                                   \* empty image: the word at 0 is 0
      <<104, 5, 77>>,                         \* output, then an unknown opcode
      <<3, 9, -1>>,                           \* input, then a negative word
      <<104, 1, 123401>>,                     \* a word of six digits
      <<104, 2, 304, 0, 99>>,                 \* value operand with mode 3
      <<3001, 50, 0, 0, 99>>,                 \* second value operand with mode 3
      <<3105, 0, 7, 3105, 1, 7, 99>>,         \* jump target with mode 3, not taken then taken
      <<30001, 0, 0, 0, 303, 5, 4, 5, 99>>,   \* write destinations with mode 3
      <<11101, 2, 3, 7, 1105, 1, 4>> }        \* destination in mode 1, then a jump to itself

InputSeqs == {<<>>, <<7>>, <<7, 8>>}

Consoles == {<<>>, <<5>>}

\* the num_outputs arguments passed to run
Bounds == {NoBound, <<0>>, <<1>>, <<2>>}

AddArgs ==
    { [kind |-> "int", items |-> <<5>>, bad |-> 0],
      [kind |-> "list", items |-> <<5, 6>>, bad |-> 0],
      [kind |-> "list", items |-> <<5, 0>>, bad |-> 2],
      [kind |-> "other", items |-> <<>>, bad |-> 0] }

\* --------------------------------------------------------------------- state
VARIABLES
    mach,      \* machine name -> its fields; "o" is constructed, "c" is its copy
    dicts,     \* reference -> defaultdict (the memory of a machine)
    lists,     \* reference -> list (an output log)
    iters,     \* reference -> what a list iterator has left (pending inputs)
    console,   \* the values still to be typed at the console
    hist,      \* history, per machine
    last,      \* history: the last call and what it reported
    ref,       \* history: what one unbounded run of the constructed machine reports
               \* (Diverged when it takes more than MaxSteps instructions)
    segs,      \* history: every call so far was a bounded run of "o" that returned Suspended
    nops       \* number of calls so far

vars == <<mach, dicts, lists, iters, console, hist, last, ref, segs, nops>>

\* a machine's fields with its objects read from the heaps in ds, ls, its
Flat(f, ds, ls, its, con, h) ==
    [program |-> ds[f.program], output |-> ls[f.output], inputs |-> its[f.inputs],
     pointer |-> f.pointer, relative_base |-> f.relative_base,
     interactive |-> f.interactive, console |-> con,
     istores |-> h.istores, creads |-> h.creads]

Load(m) == Flat(mach[m], dicts, lists, iters, console, hist[m])

NoView == View(init(<<>>, <<>>, TRUE))

\* the other machine, and what can be observed of it (NoView before the copy)
Other(m) == IF m = "o" THEN "c" ELSE "o"
OtherView(m) == IF Other(m) \in DOMAIN mach THEN View(Load(Other(m))) ELSE NoView

Refs(mm, field) == {mm[m][field] : m \in DOMAIN mm}

History(inputs) ==
    [supplied |-> inputs,     \* the constructor's inputs and every value add_input queued
     istores |-> <<>>,        \* the values queue-fed input instructions stored
     creads |-> 0,            \* console reads
     creadsAtAdd |-> 0,       \* console reads when add_input was first invoked
     creadsAtCopy |-> 0,      \* console reads when copy was last invoked
     added |-> FALSE,         \* add_input has been invoked on this machine
     copied |-> FALSE,        \* copy has been invoked on this machine
     since |-> <<>>,          \* the calls applied since copy was last invoked
     image |-> {},            \* the addresses the constructor filled
     written |-> {}]          \* the addresses instructions have stored to

\* the addresses the instructions of a trace stored to: operand 3 of opcodes
\* 1, 2, 7, 8 and operand 1 of opcode 3
Stored(e) ==
    LET k == IF e.opcode = 3 THEN 1 ELSE 3
    IN  IF e.opcode \in {1, 2, 3, 7, 8}
        THEN {get_write_value(e.pre, Instruction(Get(e.pre.program, e.pointer + k), e.modes[k]))}
        ELSE {}

Written(trace) == UNION {Stored(trace[i]) : i \in 1..Len(trace)}

Call(op, arg) == [op |-> op, arg |-> arg]
RunArg(n) == [kind |-> "run", items |-> n, bad |-> 0]
NoArg == [kind |-> "none", items |-> <<>>, bad |-> 0]

\* an exception is not caught: the caller ends with it, as it does when a run
\* never returns
Stuck == last.ret \notin {"Halted", "Suspended", "Returned", None}

Init ==
    \E program \in Programs, inputs \in InputSeqs, force \in BOOLEAN, con \in Consoles :
        LET f == init(program, inputs, force)
            m == [program |-> 0, output |-> 0, inputs |-> 0, pointer |-> f.pointer,
                  relative_base |-> f.relative_base, interactive |-> f.interactive]
            s == Flat(m, <<>> @@ (0 :> f.program), <<>> @@ (0 :> f.output),
                      <<>> @@ (0 :> f.inputs), con, History(inputs))
        IN  /\ (f.interactive \/ con = <<>>)    \* the console is never read otherwise
            /\ mach = [x \in {"o"} |-> m]
            /\ dicts = [x \in {0} |-> f.program]
            /\ lists = [x \in {0} |-> f.output]
            /\ iters = [x \in {0} |-> f.inputs]
            /\ console = con
            /\ hist = [x \in {"o"} |-> [History(inputs) EXCEPT !.image = DOMAIN f.program]]
            /\ last = [op |-> "init", on |-> "o", arg |-> NoArg, ret |-> "Returned", val |-> 0,
                       before |-> View(s), pre |-> View(s), after |-> View(s),
                       other |-> NoView, trace |-> <<>>, segs |-> TRUE]
            /\ \E r \in {run(s, NoBound, MaxSteps)} :
                   ref = [ret |-> r.ret, s |-> View(r.s), console |-> r.s.console]
            /\ segs = TRUE
            /\ nops = 0

\* m.run(num_outputs)
Run(m, n) ==
    /\ m \in DOMAIN mach /\ nops < MaxOps /\ ~Stuck
    /\ \E r \in {run(Load(m), n, MaxSteps)} :
           /\ mach' = [mach EXCEPT ![m].pointer = r.s.pointer,
                                   ![m].relative_base = r.s.relative_base]
           /\ dicts' = [dicts EXCEPT ![mach[m].program] = r.s.program]
           /\ lists' = [lists EXCEPT ![mach[m].output] = r.s.output]
           /\ iters' = [iters EXCEPT ![mach[m].inputs] = r.s.inputs]
           /\ console' = r.s.console
           /\ hist' = [hist EXCEPT ![m].istores = r.s.istores, ![m].creads = r.s.creads,
                                   ![m].written = @ \cup Written(r.trace),
                                   ![m].since = Append(@, Call("run", RunArg(n)))]
           /\ last' = [op |-> "run", on |-> m, arg |-> RunArg(n), ret |-> r.ret, val |-> 0,
                       before |-> View(Load(m)), pre |-> View(r.pre), after |-> View(r.s),
                       other |-> OtherView(m), trace |-> r.trace, segs |-> segs]
           /\ segs' = (segs /\ m = "o" /\ n # NoBound /\ bool(n) /\ r.ret = "Suspended")
    /\ nops' = nops + 1
    /\ UNCHANGED ref

\* the values add_input(arg) queues before it returns or raises
Queued(arg) ==
    IF arg.kind = "other" THEN <<>>
    ELSE IF arg.bad = 0 THEN arg.items
    ELSE SubSeq(arg.items, 1, arg.bad - 1)

\* m.add_input(arg)
AddInput(m, arg) ==
    /\ m \in DOMAIN mach /\ nops < MaxOps /\ ~Stuck
    /\ \E a \in {add_input(iters, mach[m].inputs, arg)} :
       \E mm \in {[mach EXCEPT ![m].interactive = add_input_interactive(@, arg),
                               ![m].inputs = a.ref]} :
       \E hh \in {[hist EXCEPT ![m].supplied = @ \o Queued(arg), ![m].added = TRUE,
                               ![m].creadsAtAdd = IF hist[m].added THEN @ ELSE hist[m].creads,
                               ![m].since = Append(@, Call("add_input", arg))]} :
       \E its \in {Collect(a.heap, Refs(mm, "inputs"))} :
           /\ mach' = mm
           /\ iters' = its
           /\ hist' = hh
           /\ last' = [op |-> "add_input", on |-> m, arg |-> arg, ret |-> a.err, val |-> 0,
                       before |-> View(Load(m)),
                       pre |-> View(Load(m)),
                       after |-> View(Flat(mm[m], dicts, lists, its, console, hh[m])),
                       other |-> OtherView(m), trace |-> <<>>, segs |-> segs]
    /\ segs' = FALSE
    /\ nops' = nops + 1
    /\ UNCHANGED <<dicts, lists, console, ref>>

\* copy: the fields of res and the heaps after the call
copy(self, ds, ls, its) ==
    LET p == copy_program(ds, self)
        i == copy_inputs(its, self)
        o == copy_output(ls, self)
    IN  [res |-> [program |-> p.ref, inputs |-> i.ref, output |-> o.ref,
                  pointer |-> self.pointer, relative_base |-> self.relative_base,
                  interactive |-> self.interactive],
         dicts |-> p.heap, lists |-> o.heap, iters |-> i.heap]

\* c = o.copy()
Copy ==
    /\ nops < MaxOps /\ ~Stuck
    /\ \E k \in {copy(mach["o"], dicts, lists, iters)} :
       \E mm \in {[x \in {"o", "c"} |-> IF x = "c" THEN k.res ELSE mach["o"]]} :
       \E ds \in {Collect(k.dicts, Refs(mm, "program"))} :
       \E ls \in {Collect(k.lists, Refs(mm, "output"))} :
       \E its \in {Collect(k.iters, Refs(mm, "inputs"))} :
       \E ho \in {[hist["o"] EXCEPT !.copied = TRUE, !.since = <<>>,
                                    !.creadsAtCopy = hist["o"].creads]} :
       \E hc \in {[History(its[k.res.inputs]) EXCEPT !.creads = hist["o"].creads,
                                                    !.creadsAtAdd = hist["o"].creads,
                                                    !.creadsAtCopy = hist["o"].creads,
                                                    !.image = hist["o"].image,
                                                    !.written = hist["o"].written]} :
           /\ mach' = mm
           /\ dicts' = ds
           /\ lists' = ls
           /\ iters' = its
           /\ hist' = [x \in {"o", "c"} |-> IF x = "c" THEN hc ELSE ho]
           /\ last' = [op |-> "copy", on |-> "o", arg |-> NoArg, ret |-> "Returned", val |-> 0,
                       before |-> View(Load("o")), pre |-> View(Load("o")),
                       after |-> View(Flat(mm["o"], ds, ls, its, console, ho)),
                       other |-> OtherView("o"), trace |-> <<>>, segs |-> segs]
    /\ segs' = FALSE
    /\ nops' = nops + 1
    /\ UNCHANGED <<console, ref>>

\* m.diagnostic()
Diagnostic(m) ==
    /\ m \in DOMAIN mach /\ nops < MaxOps /\ ~Stuck
    /\ \E d \in {diagnostic(lists[mach[m].output])} :
           /\ last' = [op |-> "diagnostic", on |-> m, arg |-> NoArg, ret |-> d.ret, val |-> d.val,
                       before |-> View(Load(m)), pre |-> View(Load(m)), after |-> View(Load(m)),
                       other |-> OtherView(m), trace |-> <<>>, segs |-> segs]
           /\ hist' = [hist EXCEPT ![m].since = Append(@, Call("diagnostic", NoArg))]
    /\ segs' = FALSE
    /\ nops' = nops + 1
    /\ UNCHANGED <<mach, dicts, lists, iters, console, ref>>

Next ==
    \/ \E m \in {"o", "c"}, n \in Bounds : Run(m, n)
    \/ \E m \in {"o", "c"}, arg \in AddArgs : AddInput(m, arg)
    \/ Copy
    \/ \E m \in {"o", "c"} : Diagnostic(m)

Spec == Init /\ [][Next]_vars

\* ------------------------------------------------------------------- typing
TypeOK ==
    /\ DOMAIN mach \in {{"o"}, {"o", "c"}}
    /\ \A m \in DOMAIN mach :
          /\ mach[m].program \in DOMAIN dicts
          /\ mach[m].output \in DOMAIN lists
          /\ mach[m].inputs \in DOMAIN iters
    /\ nops \in 0..MaxOps

\* ------------------------------------------------------------------- claims
Machines == DOMAIN mach
Now(m) == View(Load(m))
WordAt(m) == Get(dicts[mach[m].program], mach[m].pointer)
IsPrefix(p, q) == Len(p) <= Len(q) /\ SubSeq(q, 1, Len(p)) = p
Bound(arg) == arg.items[1]
Appended == Len(last.after.output) - Len(last.before.output)
Ended == last.op = "run" /\ last.ret \notin {"Suspended", "Diverged", "Blocked"}
ValidModes == {0, 1, 2}

\* C1: after c = copy(), the same calls applied to the original and to the
\* copy leave the two with the same output log and the same memory (console
\* reads, which the two would share, set aside).
C1_SameCallsSameResult ==
    ( /\ "c" \in Machines
      /\ hist["o"].since = hist["c"].since
      /\ \A m \in Machines : hist[m].creads = hist[m].creadsAtCopy )
    => /\ Now("o").output = Now("c").output
       /\ Now("o").program = Now("c").program

\* C2: once the copy exists, a run or add_input on one machine leaves
\* everything observable of the other machine as it was.
C2_Isolation ==
    (last.op \in {"run", "add_input"} /\ "c" \in Machines)
    => Now(Other(last.on)) = last.other

C2_Witness ==
    /\ "c" \in Machines
    /\ last.op = "run"
    /\ last.on = "c"
    /\ last.after.output # last.before.output
    /\ last.after.program # last.before.program
    /\ last.after.inputs # last.before.inputs

\* C3: bounded runs (N >= 1) that each return Suspended, followed by a run
\* that returns Halted, end in the state one unbounded run of the constructed
\* machine ends in: memory, pointer, relative base, pending inputs, output log
\* (and the same values left to type at the console).
C3_SegmentsEqualOneRun ==
    (last.op = "run" /\ last.on = "o" /\ last.segs /\ last.ret = "Halted"
        /\ ref.ret # "Diverged")
    => /\ ref.ret = "Halted"
       /\ Now("o") = ref.s
       /\ console = ref.console

C3_Witness ==
    /\ last.op = "run" /\ last.on = "o" /\ last.segs /\ last.ret = "Halted"
    /\ ref.ret = "Halted"
    /\ nops = 3
    /\ Len(Now("o").output) = 2
    /\ hist["o"].istores # <<>>

\* C4: a run with bound N >= 1 that returns Suspended appended exactly N
\* values, the last instruction it executed is the output that produced the
\* N-th, and the pointer is just after that instruction; an unbounded run
\* after such runs that returns Halted leaves the log one unbounded run leaves,
\* the earlier log being a prefix of it.
C4_SuspendedAfterNthOutput ==
    /\ (last.op = "run" /\ last.ret = "Suspended")
       => /\ last.arg.items # NoBound
          /\ Bound(last.arg) >= 1
          /\ Appended = Bound(last.arg)
          /\ last.trace # <<>>
          /\ last.trace[Len(last.trace)].opcode = 4
          /\ last.pre.pointer = last.trace[Len(last.trace)].pointer
          /\ Len(last.pre.output) = Len(last.after.output) - 1
          /\ last.after.pointer = last.pre.pointer + 2
    /\ (last.op = "run" /\ last.on = "o" /\ last.segs /\ nops >= 2
            /\ last.arg.items = NoBound /\ last.ret = "Halted" /\ ref.ret # "Diverged")
       => /\ Now("o").output = ref.s.output
          /\ IsPrefix(last.before.output, Now("o").output)

C4_Witness ==
    /\ last.op = "run" /\ last.on = "o" /\ last.segs /\ nops >= 2
    /\ ref.ret = "Halted"
    /\ last.arg.items = NoBound /\ last.ret = "Halted"
    /\ Appended > 0
    /\ Len(last.before.output) = 2

\* C5: a run called with a bound N >= 0 appends at most N values to the log.
C5_AtMostN ==
    (last.op = "run" /\ last.arg.items # NoBound) => Appended <= Bound(last.arg)

\* C6: on a machine that copy was never called on, the values queue-fed input
\* instructions stored, followed by the values still pending, are exactly the
\* constructor's inputs followed by the values add_input queued, in call order.
C6_Fifo ==
    \A m \in Machines :
        ~hist[m].copied
        => hist[m].istores \o Now(m).inputs = hist[m].supplied

C6_Witness ==
    /\ ~hist["o"].copied
    /\ hist["o"].added
    /\ Len(hist["o"].istores) = 2
    /\ hist["o"].istores[2] = 5
    /\ Now("o").inputs # <<>>

\* C7: once add_input has been invoked on a machine, its interactive flag is
\* false and it reads the console no more.
C7_InteractiveOffForGood ==
    \A m \in Machines :
        hist[m].added => ~Now(m).interactive /\ hist[m].creads = hist[m].creadsAtAdd

C7_Witness ==
    /\ hist["o"].added
    /\ hist["o"].creads > 0
    /\ hist["o"].istores # <<>>
    /\ last.op = "run"

\* C8: in queued mode a run that comes to an input instruction with nothing
\* pending fails with StopIteration, and that instruction changes nothing:
\* memory, pointer (still at the input instruction), relative base and output
\* log are what they were before it was fetched.
C8_InputExhausted ==
    /\ (last.op = "run" /\ last.ret = "StopIteration")
       => /\ last.after = last.pre
          /\ Now(last.on) = last.pre
          /\ parse_opcode(WordAt(last.on)).opcode = 3
          /\ ~Now(last.on).interactive
    /\ (Ended /\ ~Now(last.on).interactive /\ Now(last.on).inputs = <<>>
            /\ parse_opcode(WordAt(last.on)).ok
            /\ parse_opcode(WordAt(last.on)).opcode = 3)
       => last.ret = "StopIteration"

C8_Witness ==
    /\ last.op = "run" /\ last.ret = "StopIteration"
    /\ last.after.output # last.before.output
    /\ hist[last.on].istores # <<>>

\* C9: no run executes a word whose low two digits are not an opcode, and a
\* run that comes to a word that decodes to no opcode fails with ValueError
\* leaving memory, pointer, relative base, pending inputs and output log as
\* the last executed instruction left them.
BadOpcode(w) ==
    \/ ~parse_opcode(w).ok
    \/ parse_opcode(w).opcode \notin {1, 2, 3, 4, 5, 6, 7, 8, 9, 99}
    \/ (w \in 0..99999 /\ (w % 100) \notin {1, 2, 3, 4, 5, 6, 7, 8, 9, 99})

C9_InvalidOpcode ==
    /\ \A i \in 1..Len(last.trace) : ~BadOpcode(last.trace[i].word)
    /\ (Ended /\ BadOpcode(WordAt(last.on)))
       => /\ last.ret = "ValueError"
          /\ last.after = last.pre
          /\ Now(last.on) = last.pre

C9_Witness ==
    /\ Ended /\ BadOpcode(WordAt(last.on))
    /\ last.trace # <<>>
    /\ last.after # last.before

\* C10: every operand an executed instruction resolves has a mode digit in
\* {0,1,2}, write destinations included (resolving any other fails).
C10_InvalidModeFails ==
    \A i \in 1..Len(last.trace) :
        LET e == last.trace[i]
        IN  /\ e.modes[1] \in ValidModes
            /\ e.opcode \in {1, 2, 7, 8} => e.modes[2] \in ValidModes /\ e.modes[3] \in ValidModes

\* C11: for every word w >= 0 a run fetches, whatever its size, the decoded
\* opcode is w mod 100, and the run goes by that value: it executes only words
\* whose w mod 100 is an opcode, halts on w mod 100 = 99 and on no other word,
\* and fails with ValueError on a word whose w mod 100 is no opcode.
C11_OpcodeIsLowTwoDigits ==
    /\ \A i \in 1..Len(last.trace) :
          LET e == last.trace[i]
          IN  e.word >= 0 => e.opcode = e.word % 100 /\ e.opcode \in valid_opcodes
    /\ (Ended /\ WordAt(last.on) >= 0)
       => /\ parse_opcode(WordAt(last.on)).opcode = WordAt(last.on) % 100
          /\ (last.ret = "Halted") = (WordAt(last.on) % 100 = 99)
          /\ (WordAt(last.on) % 100) \notin valid_opcodes => last.ret = "ValueError"

\* the decimal digits of a word above its low two
HundredsDigit(w) == (w \div 100) % 10
ThousandsDigit(w) == (w \div 1000) % 10
TenThousandsDigit(w) == (w \div 10000) % 10
FiveDigits == 0..99999

\* the words the last run decoded: those it executed and, where it ended on
\* one, the word at the pointer
Decoded ==
    {last.trace[i].word : i \in 1..Len(last.trace)}
        \cup (IF Ended THEN {WordAt(last.on)} ELSE {})

Example2 == <<1101, 100, -1, 4, 0>>

\* C12 as stated: for every decoded word w in 0..99999 the mode of operand 1
\* is the ten-thousands digit of w, that of operand 2 the thousands digit,
\* that of operand 3 the hundreds digit.
C12_ModesMostSignificantFirst ==
    \A w \in Decoded \cap FiveDigits :
        parse_opcode(w).modes = <<TenThousandsDigit(w), ThousandsDigit(w), HundredsDigit(w)>>

\* C12 amended: for every decoded word w in 0..99999 the mode of operand 1
\* is the hundreds digit of w, that of operand 2 the thousands digit, that of
\* operand 3 the ten-thousands digit; these are the modes the executed
\* instruction's operands carry, and <<1101, 100, -1, 4, 0>> halts with 99 at
\* address 4.
C12_ModesLeastSignificantFirst ==
    /\ \A w \in Decoded \cap FiveDigits :
          parse_opcode(w).modes = <<HundredsDigit(w), ThousandsDigit(w), TenThousandsDigit(w)>>
    /\ \A i \in 1..Len(last.trace) :
          LET e == last.trace[i]
          IN  e.word \in FiveDigits
              => e.modes = <<HundredsDigit(e.word), ThousandsDigit(e.word), TenThousandsDigit(e.word)>>
    /\ (nops = 1 /\ last.op = "run" /\ last.before.program = View(init(Example2, <<>>, FALSE)).program)
       => last.ret = "Halted" /\ Get(last.after.program, 4) = 99

C12_Witness ==
    /\ nops = 1 /\ last.op = "run" /\ last.ret = "Halted"
    /\ last.before.program = View(init(Example2, <<>>, FALSE)).program
    /\ Len(last.trace) = 1
    /\ last.trace[1].modes = <<1, 1, 0>>
    /\ Get(last.after.program, 4) = 99

\* the addresses probed: every key of the memory (a read leaves its key
\* behind), one address below every image and one never touched
Probe(m) == DOMAIN dicts[mach[m].program] \cup {-1, 21}

\* the addresses of a machine that were neither part of its image nor stored to
Unset(m) == Probe(m) \ (hist[m].image \cup hist[m].written)

\* C13: an address that was neither part of the image nor stored to reads as
\* 0 in position mode, in relative mode and as a fetched cell, the read does
\* not fail, and it leaves the value read at every address as it was; this
\* holds between calls and before every instruction a run executed.
C13_UnsetReadsZero ==
    \A m \in Machines :
        LET s == Load(m)
            v == View(s)
        IN  \A a \in Unset(m) :
                LET p == get_value(s, Instruction(a, 0))
                    r == get_value(s, Instruction(a - s.relative_base, 2))
                IN  /\ p.err = None /\ p.val = 0 /\ View(p.s) = v
                    /\ r.err = None /\ r.val = 0 /\ View(r.s) = v
                    /\ slice_program(s, a, 1) = <<0>>
                    /\ Contents(touch_range(s.program, a, 1)) = v.program
                    /\ \A i \in 1..Len(last.trace) :
                          last.on = m => Get(last.trace[i].pre.program, a) = 0

\* a run went through a jump whose operand is read from address 20, beyond
\* the image, and halted; the read left the key 20 in the memory
C13_Witness ==
    /\ last.op = "run" /\ last.ret = "Halted"
    /\ Len(last.trace) = 2
    /\ last.trace[2].opcode = 6 /\ last.trace[2].modes[1] = 0
    /\ Get(last.trace[2].pre.program, last.trace[2].pointer + 1) = 20
    /\ 20 \in Unset(last.on)
    /\ 20 \in DOMAIN dicts[mach[last.on].program]
    /\ last.after.pointer = 3

\* every value of a log except the last is 0
AllButLastZero(log) == \A i \in 1..(Len(log) - 1) : log[i] = 0

\* C14: diagnostic() has two outcomes: it returns the last value of the log
\* when every value except the last is 0, and fails with RuntimeError (the
\* BadDiagnostic failure) otherwise; either way the machine is left as it was.
C14_DiagnosticTwoOutcomes ==
    (last.op = "diagnostic")
    => /\ last.ret \in {"Returned", "RuntimeError"}
       /\ AllButLastZero(last.before.output)
          => /\ last.ret = "Returned"
             /\ last.before.output # <<>>
             /\ last.val = last.before.output[Len(last.before.output)]
       /\ ~AllButLastZero(last.before.output) => last.ret = "RuntimeError"
       /\ last.after = last.before
       /\ Now(last.on) = last.before

\* ---- the instructions the last run executed, one by one
Steps == 1..Len(last.trace)

\* the machine before the i-th executed instruction was fetched, and after it
Pre(i) == last.trace[i].pre
Post(i) ==
    IF i < Len(last.trace) THEN last.trace[i + 1].pre
    ELSE IF last.ret = "Suspended" THEN last.after
    ELSE last.pre

\* the k-th operand cell of the i-th instruction and its mode digit
Raw(i, k) == Get(Pre(i).program, last.trace[i].pointer + k)
Mode(i, k) == last.trace[i].modes[k]

\* what the operand stands for as a value and as a write destination, from
\* (raw, mode, relative base, memory) before the instruction
Value(i, k) ==
    IF Mode(i, k) = 0 THEN Get(Pre(i).program, Raw(i, k))
    ELSE IF Mode(i, k) = 1 THEN Raw(i, k)
    ELSE Get(Pre(i).program, Pre(i).relative_base + Raw(i, k))

Address(i, k) ==
    IF Mode(i, k) = 2 THEN Pre(i).relative_base + Raw(i, k) ELSE Raw(i, k)

\* a memory with v at address a and every other address as in mem
Store(mem, a, v) == Contents(Put(mem, a, v))

\* the result of opcodes 1, 2, 7, 8 on a and b
Compute(opcode, a, b) ==
    IF opcode = 1 THEN a + b
    ELSE IF opcode = 2 THEN a * b
    ELSE IF opcode = 7 THEN (IF a < b THEN 1 ELSE 0)
    ELSE (IF a = b THEN 1 ELSE 0)

\* C15: whatever the opcode and the operand position, a value operand stands
\* for memory[raw] in mode 0, raw in mode 1, memory[relative_base + raw] in
\* mode 2, and a write destination for relative_base + raw in mode 2 and raw
\* in modes 0 and 1: every executed instruction outputs, adds to the relative
\* base, tests, jumps to, computes with and stores at exactly these.
C15_OperandResolution ==
    \A i \in Steps :
        LET op == last.trace[i].opcode
        IN  /\ op = 4 => Post(i).output = Append(Pre(i).output, Value(i, 1))
            /\ op = 9 => Post(i).relative_base = Pre(i).relative_base + Value(i, 1)
            /\ (op = 5 /\ Value(i, 1) # 0) => Post(i).pointer = Value(i, 2)
            /\ (op = 5 /\ Value(i, 1) = 0) => Post(i).pointer = Pre(i).pointer + 3
            /\ (op = 6 /\ Value(i, 1) = 0) => Post(i).pointer = Value(i, 2)
            /\ (op = 6 /\ Value(i, 1) # 0) => Post(i).pointer = Pre(i).pointer + 3
            /\ (op \in {1, 2, 7, 8} /\ Mode(i, 3) \in ValidModes)
               => Post(i).program
                  = Store(Pre(i).program, Address(i, 3), Compute(op, Value(i, 1), Value(i, 2)))
            /\ (op = 3 /\ Mode(i, 1) \in ValidModes)
               => /\ Post(i).program
                     = Store(Pre(i).program, Address(i, 1), Get(Post(i).program, Address(i, 1)))
                  /\ ~Pre(i).interactive
                     => Get(Post(i).program, Address(i, 1)) = Head(Pre(i).inputs)

\* a run stored an input through a relative-mode destination and output a
\* value through a relative-mode operand, with the relative base away from 0
C15_Witness ==
    /\ last.op = "run" /\ last.ret = "Halted"
    /\ \E i \in Steps :
          /\ last.trace[i].opcode = 3 /\ Mode(i, 1) = 2
          /\ Pre(i).relative_base # 0
          /\ Post(i).program # Pre(i).program
          /\ Address(i, 1) # Raw(i, 1)
    /\ \E i \in Steps :
          /\ last.trace[i].opcode = 4 /\ Mode(i, 1) = 2
          /\ Pre(i).relative_base # 0
          /\ Value(i, 1) # 0

\* a run stored a sum through a destination in mode 1
C15_WitnessImmediateDestination ==
    \E i \in Steps :
        /\ last.trace[i].opcode = 1 /\ Mode(i, 3) = 1
        /\ Post(i).program = Store(Pre(i).program, Raw(i, 3), 5)
        /\ Post(i).program # Pre(i).program

\* C16: an executed instruction of opcode 1, 2, 7 or 8 stores a + b, a * b,
\* (1 if a < b else 0), (1 if a = b else 0) of its two values, resolved in
\* the memory before the instruction, at its destination; every other
\* address reads as before, also when the destination is a cell of the
\* instruction itself; relative base, pending inputs and output log are as
\* before.
C16_BinaryWritesOneCell ==
    \A i \in Steps :
        last.trace[i].opcode \in {1, 2, 7, 8}
        => /\ \E dst \in {Raw(i, 3), Pre(i).relative_base + Raw(i, 3)} :
                 /\ Mode(i, 3) \in ValidModes => dst = Address(i, 3)
                 /\ Get(Post(i).program, dst)
                    = Compute(last.trace[i].opcode, Value(i, 1), Value(i, 2))
                 /\ \A a \in (DOMAIN Pre(i).program \cup DOMAIN Post(i).program) \ {dst} :
                        Get(Post(i).program, a) = Get(Pre(i).program, a)
           /\ Post(i).relative_base = Pre(i).relative_base
           /\ Post(i).inputs = Pre(i).inputs
           /\ Post(i).output = Pre(i).output

\* an addition overwrote its own instruction word with a sum computed from
\* the word as it was
C16_Witness ==
    \E i \in Steps :
        /\ last.trace[i].opcode = 1
        /\ Address(i, 3) = last.trace[i].pointer
        /\ Mode(i, 1) = 0 /\ Raw(i, 1) = Address(i, 3)
        /\ Get(Post(i).program, Address(i, 3)) = 2 * last.trace[i].word
        /\ Pre(i).inputs # <<>>

\* the number of operands of an opcode
OperandCount(opcode) ==
    IF opcode \in {1, 2, 7, 8} THEN 3 ELSE IF opcode \in {5, 6} THEN 2 ELSE 1

\* the i-th executed instruction is a jump that is taken
Taken(i) ==
    \/ last.trace[i].opcode = 5 /\ Value(i, 1) # 0
    \/ last.trace[i].opcode = 6 /\ Value(i, 1) = 0

\* C17: after an executed instruction the pointer is value(b) when it is a
\* taken jump (opcode 5 with value(a) # 0, opcode 6 with value(a) = 0), also
\* when value(b) is the old pointer, and the old pointer plus
\* operand_count + 1 otherwise; a jump, taken or not, changes only the pointer.
C17_PointerAfterInstruction ==
    \A i \in Steps :
        /\ Post(i).pointer
           = IF Taken(i) THEN Value(i, 2)
             ELSE Pre(i).pointer + OperandCount(last.trace[i].opcode) + 1
        /\ last.trace[i].opcode \in {5, 6}
           => [Post(i) EXCEPT !.pointer = Pre(i).pointer] = Pre(i)

\* a run executed a jump that was taken to its own address, after a store
C17_Witness ==
    /\ \E i \in Steps :
          /\ Taken(i)
          /\ Value(i, 2) = Pre(i).pointer
          /\ Post(i).pointer = Pre(i).pointer
          /\ Pre(i).pointer # 0
    /\ \E i \in Steps : ~Taken(i) /\ Post(i).pointer = Pre(i).pointer + 4

\* a run executed a jump that was not taken
C17_WitnessNotTaken ==
    \E i \in Steps :
        /\ last.trace[i].opcode \in {5, 6} /\ ~Taken(i)
        /\ Post(i).pointer = Pre(i).pointer + 3

\* the values the executed opcode-4 instructions of the last run output, in order
RECURSIVE Outputs(_)
Outputs(i) ==
    IF i = 0 THEN <<>>
    ELSE IF last.trace[i].opcode = 4 THEN Append(Outputs(i - 1), Value(i, 1))
    ELSE Outputs(i - 1)

\* C18: over run, add_input, diagnostic and copy calls the log of a machine
\* only grows at its end: the log before a call is a prefix of the log after
\* it and the other machine's log stays as it is; within a run the log grows
\* by value(a) at each executed opcode-4 instruction and at no other, whether
\* the run halts, suspends or ends in an error.
C18_LogAppendOnly ==
    /\ IsPrefix(last.before.output, last.after.output)
    /\ Now(last.on).output = last.after.output
    /\ last.op \in {"add_input", "diagnostic", "copy"} => last.after.output = last.before.output
    /\ (last.op # "copy" /\ "c" \in Machines) => Now(Other(last.on)).output = last.other.output
    /\ (last.op = "copy") => IsPrefix(last.before.output, Now("c").output)
    /\ \A i \in Steps :
          Post(i).output = IF last.trace[i].opcode = 4
                           THEN Append(Pre(i).output, Value(i, 1))
                           ELSE Pre(i).output
    /\ last.op = "run" => last.after.output = last.before.output \o Outputs(Len(last.trace))

\* a run ended in an error after it had output
C18_Witness ==
    /\ last.op = "run"
    /\ last.ret \in {"ValueError", "StopIteration"}
    /\ nops = 2
    /\ Appended = 1
    /\ Outputs(Len(last.trace)) # <<>>

\* C19: copy() leaves the machine it is called on as it was: memory, pointer,
\* relative base, pending inputs, output log and interactive flag.
C19_CopyLeavesOriginal ==
    (last.op = "copy") => last.after = last.before /\ Now("o") = last.before

\* C20: a machine whose interactive flag is true has no pending input,
\* between calls and before every instruction a run executed, so that an
\* input instruction reads the console only with nothing queued.
C20_InteractiveHasNoQueue ==
    /\ \A m \in Machines : Now(m).interactive => Now(m).inputs = <<>>
    /\ \A i \in Steps : Pre(i).interactive => Pre(i).inputs = <<>>

\* an interactive machine read the console, was copied, and its copy is
\* interactive too
C20_Witness ==
    /\ "c" \in Machines
    /\ Now("o").interactive /\ Now("c").interactive
    /\ hist["o"].creads > 0
    /\ last.op = "copy"

====
